---- MODULE Spec2Model ----
(***************************************************************************)
(* Model of the two diagnostic scripts of openai-to-cloudflare-ai:         *)
(*   scripts/tests/test-image-generation.py  (image endpoint probe)        *)
(*   test-litellm-integration.py             (chat-completion probe)       *)
(* The remote server, the file system and the command line are the         *)
(* environment: their answers are chosen nondeterministically.             *)
(***************************************************************************)
EXTENDS Integers, Sequences, FiniteSets, TLC

(***************************************************************************)
(* Bounds of the model.                                                    *)
(***************************************************************************)
\* longest tool_calls list the chat server answers with
MaxToolCalls == 2

(***************************************************************************)
(* test-image-generation.py : values                                       *)
(***************************************************************************)
\* api_key values: None (no --api-key, no API_KEY), "" (empty), a token
NoKey == "None"
ApiKeys == {NoKey, "", "sk-test"}

\* mutant: the key check is dropped
KeyCheckDropped(api_key) == FALSE
\* mutant: `if api_key is None` in place of `if not api_key`
KeyIsNone(api_key) == api_key = NoKey

\* `not api_key` of Python: None and the empty string are falsy
KeyMissing(api_key) == api_key = NoKey \/ api_key = ""

DefaultOutput == "/tmp/image_generation_response.json"
OtherOutput == "/data/out/response.json"
Formats == {"url", "b64_json"}

\* the suite's hardcoded cases (model and format of each)
test_cases ==
  << [name |-> "Basic image generation",       model |-> "gpt-image-1", format |-> "url"],
     [name |-> "Alternative alias (dall-e-3)", model |-> "dall-e-3",    format |-> "url"],
     [name |-> "Base64 JSON format",           model |-> "gpt-image-1", format |-> "b64_json"],
     [name |-> "Detailed prompt",              model |-> "gpt-image-1", format |-> "url"],
     [name |-> "Abstract concept",             model |-> "gpt-image-1", format |-> "url"] >>

\* mutant: the index is left out of the file name
CasePathShared(i) == [dir |-> "/tmp", file |-> "image_test", idx |-> 1]

\* f'/tmp/image_test_{i}.json'
CasePath(i) == [dir |-> "/tmp", file |-> "image_test", idx |-> i]
SinglePath(p) == [dir |-> IF p = DefaultOutput THEN "/tmp" ELSE "/data/out",
                  file |-> p, idx |-> 0]
Paths == {CasePath(i) : i \in 1..Len(test_cases)}
           \cup {SinglePath(DefaultOutput), SinglePath(OtherOutput)}

(***************************************************************************)
(* JSON values the server may answer with.  A decoded body is described by *)
(* what the script reads of it: whether it is an object, what sits under   *)
(* "data", and the "url" member of the first element of that list.         *)
(***************************************************************************)
Bodies ==
  { [obj |-> FALSE, data |-> "absent", first |-> "none"],    \* [] , "ok", 3
    [obj |-> TRUE,  data |-> "absent", first |-> "none"],    \* {"model": ...}
    [obj |-> TRUE,  data |-> "null",   first |-> "none"],    \* {"data": null}
    [obj |-> TRUE,  data |-> "empty",  first |-> "none"],    \* {"data": []}
    [obj |-> TRUE,  data |-> "list",   first |-> "http"],    \* [{"url": "http://x/y.png"}]
    [obj |-> TRUE,  data |-> "list",   first |-> "dataurl"], \* [{"url": "data:image/png;base64,.."}]
    [obj |-> TRUE,  data |-> "list",   first |-> "nourl"],   \* [{"b64_json": ".."}]
    [obj |-> TRUE,  data |-> "list",   first |-> "urlnull"]  \* [{"url": null}]
  }
NoBody == [obj |-> FALSE, data |-> "none", first |-> "none"]

\* response.text: the text of a JSON value, or text that is no JSON
Texts == {[json |-> TRUE, value |-> b] : b \in Bodies}
           \cup {[json |-> FALSE, value |-> NoBody]}

StatusCodes == {200, 201, 404, 500}

\* what requests.post ends in: an exception, or a response
PostExceptions == {"ConnectionError", "Timeout", "RequestException"}
NoInvocation == [kind |-> "none", exc |-> "none", status_code |-> 0,
                 text |-> [json |-> FALSE, value |-> NoBody]]
Raised(e) == [kind |-> "raise", exc |-> e, status_code |-> 0,
              text |-> [json |-> FALSE, value |-> NoBody]]
Response(s, t) == [kind |-> "response", exc |-> "none", status_code |-> s, text |-> t]
Invocations == {Raised(e) : e \in PostExceptions}
                 \cup {Response(200, t) : t \in Texts}
                 \cup {Response(s, [json |-> FALSE, value |-> NoBody]) :
                          s \in StatusCodes \ {200}}

\* what the file system does to mkdir / open / write of this call
IOOutcomes == {"ok", "mkdir_fails", "open_fails", "write_fails"}

(***************************************************************************)
(* Files.  A file is absent, holds what an earlier run left, holds a       *)
(* serialised JSON value, or was truncated by a write that failed.         *)
(***************************************************************************)
Absent == [kind |-> "absent", value |-> NoBody]
Old == [kind |-> "old", value |-> NoBody]
Truncated == [kind |-> "truncated", value |-> NoBody]

\* json.dump(data, f, indent=2)
Dump(data) == [kind |-> "json_indent2", value |-> data]

\* printed lines that matter: a marker, and the number printed with it
Line(m, n) == [m |-> m, n |-> n]

(***************************************************************************)
(* test_image_generation : the body of the function                        *)
(***************************************************************************)
\* `if response.status_code != 200` is not taken
StatusOk(status_code) == status_code = 200

\* response.json(): the decoded value of a JSON text
IsJson(text) == text.json
Decode(text) == text.value

\* mutant: `except Exception` placed first, so that it takes every exception
CatchLineGeneric(e) == Line("Error", 0)

\* the except clauses, first match first: the line the handler prints
CatchLine(e) ==
  CASE e = "ConnectionError" -> Line("Connection error", 0)
    [] e = "Timeout"         -> Line("Timeout", 0)
    [] e = "JSONDecodeError" -> Line("Invalid JSON response", 0)
    [] OTHER                 -> Line("Error", 0)

\* mutant: the final `except Exception` clause is missing
CatchesNamed(e) == e \in {"ConnectionError", "Timeout", "JSONDecodeError"}

\* the clauses end with `except Exception`: nothing raised in the try block
\* leaves the function
Catches(e) == TRUE

\* the try block ended in exception e after printing `printed`: a handler
\* prints its line and returns False; an exception no clause catches leaves
\* the function
Except(e, printed, fs, ds) ==
  IF Catches(e)
  THEN [ret |-> FALSE, uncaught |-> FALSE, out |-> printed \o <<CatchLine(e)>>,
        files |-> fs, dirs |-> ds]
  ELSE [ret |-> FALSE, uncaught |-> TRUE, out |-> printed,
        files |-> fs, dirs |-> ds]

\* Path(output_file).parent.mkdir(parents=True, exist_ok=True);
\* with open(output_file, 'w') as f: json.dump(data, f, indent=2)
Save(data, path, fs, ds, io) ==
  IF path.dir \notin ds /\ io = "mkdir_fails"
  THEN [exc |-> "OSError", files |-> fs, dirs |-> ds]
  ELSE LET ds2 == ds \cup {path.dir} IN
       IF io = "open_fails"
       THEN [exc |-> "OSError", files |-> fs, dirs |-> ds2]
       ELSE IF io = "write_fails"
       THEN [exc |-> "OSError", files |-> [fs EXCEPT ![path] = Truncated],
             dirs |-> ds2]
       ELSE [exc |-> "none", files |-> [fs EXCEPT ![path] = Dump(data)],
             dirs |-> ds2]

\* len(data.get('data', []))
ImageCount(data) == IF data.data = "list" THEN 1 ELSE 0

\* the prints after the save, up to `return True`
Report(data, format) ==
  LET l1 == <<Line("Success", 0)>> IN
  IF ~data.obj
  THEN [exc |-> "AttributeError", out |-> l1]          \* data.get on a non-dict
  ELSE IF data.data = "null"
  THEN [exc |-> "TypeError", out |-> l1]               \* len(None)
  ELSE LET l2 == l1 \o <<Line("Images generated", ImageCount(data)),
                         Line("Response saved", 0)>> IN
       IF format = "url" /\ data.data = "list"
       THEN IF data.first = "urlnull"
            THEN [exc |-> "AttributeError", out |-> l2] \* None.startswith
            ELSE IF data.first = "dataurl"
            THEN [exc |-> "none", out |-> l2 \o <<Line("Data URL", 0)>>]
            ELSE [exc |-> "none", out |-> l2 \o <<Line("Image URL", 0)>>]
       ELSE [exc |-> "none", out |-> l2]

\* the try block from the moment requests.post ends, and the handlers
TestBody(v, format, path, fs, ds, o) ==
  IF v.kind = "raise"
  THEN Except(v.exc, <<>>, fs, ds)
  ELSE IF ~StatusOk(v.status_code)
  THEN [ret |-> FALSE, uncaught |-> FALSE,
        out |-> <<Line("HTTP", v.status_code)>>, files |-> fs, dirs |-> ds]
  ELSE IF ~IsJson(v.text)
  THEN Except("JSONDecodeError", <<>>, fs, ds)
  ELSE LET data == Decode(v.text)
           sv == Save(data, path, fs, ds, o) IN
       IF sv.exc # "none"
       THEN Except(sv.exc, <<>>, sv.files, sv.dirs)
       ELSE LET rp == Report(data, format) IN
            IF rp.exc # "none"
            THEN Except(rp.exc, rp.out, sv.files, sv.dirs)
            ELSE [ret |-> TRUE, uncaught |-> FALSE, out |-> rp.out,
                  files |-> sv.files, dirs |-> sv.dirs]

(***************************************************************************)
(* run_test_suite and main : pure parts                                    *)
(***************************************************************************)
\* mutant: the else branch is missing
TallyNoFail(p, f, ret) == IF ret THEN [passed |-> p + 1, failed |-> f]
                                 ELSE [passed |-> p, failed |-> f]

\* `if test_image_generation(...): passed += 1 else: failed += 1`
Tally(p, f, ret) == IF ret THEN [passed |-> p + 1, failed |-> f]
                           ELSE [passed |-> p, failed |-> f + 1]

\* `return failed == 0`
SuiteResult(f) == f = 0

\* mutant: the exit status ignores the result
ExitCodeZero(ok) == 0

\* `sys.exit(0 if success else 1)`
ExitCode(ok) == IF ok THEN 0 ELSE 1

\* argparse ends the process itself: status 2 for a rejected command line
\* (a --size or --format outside its choices), status 0 for --help
UsageExit == 2
HelpExit == 0

NoArgs == [parsed |-> FALSE, run_suite |-> FALSE, api_key |-> NoKey,
           format |-> "url", output |-> DefaultOutput]
\* what parse_args returns; run_test_suite reads url and api_key only, so
\* with --run-suite the other options are left at their defaults
ArgsSpace ==
  {[parsed |-> TRUE, run_suite |-> FALSE, api_key |-> k, format |-> f, output |-> o] :
      k \in ApiKeys, f \in Formats, o \in {DefaultOutput, OtherOutput}}
  \cup
  {[parsed |-> TRUE, run_suite |-> TRUE, api_key |-> k, format |-> "url",
    output |-> DefaultOutput] : k \in ApiKeys}

NoCall == [idx |-> -1, format |-> "url", path |-> SinglePath(DefaultOutput)]

(***************************************************************************)
(* test-litellm-integration.py : values and the two tests                  *)
(***************************************************************************)
ToolNames == {"search", "get_weather"}
RECURSIVE SeqsUpTo(_, _)
SeqsUpTo(S, n) ==
  IF n = 0 THEN {<<>>}
  ELSE LET shorter == SeqsUpTo(S, n - 1) IN
       shorter \cup {Append(q, x) : q \in shorter, x \in S}

\* message.content: None, or a string
Contents == {[isNone |-> TRUE, text |-> ""], [isNone |-> FALSE, text |-> ""],
             [isNone |-> FALSE, text |-> "Hello!"]}
\* message.tool_calls: no such attribute, None, or a list of calls, each
\* given by its function.name
ToolCalls == {[kind |-> "noattr", calls |-> <<>>], [kind |-> "none", calls |-> <<>>]}
               \cup {[kind |-> "list", calls |-> q] : q \in SeqsUpTo(ToolNames, MaxToolCalls)}
NoMessage == [isNone |-> TRUE, text |-> ""]
\* what litellm.completion ends in: an exception, a response with no choices,
\* or a response whose first choice carries a message
Completions ==
  {[kind |-> k, content |-> NoMessage, tool_calls |-> [kind |-> "noattr", calls |-> <<>>]] :
      k \in {"raise", "nochoices"}}
  \cup {[kind |-> "message", content |-> c, tool_calls |-> t] :
          c \in Contents, t \in ToolCalls}

\* `if response.choices[0].message.content:` / `... and message.tool_calls:`
ContentTruthy(c) == ~c.isNone /\ c.text # ""
ToolCallsTruthy(t) == t.kind = "list" /\ t.calls # <<>>

\* TEST 1: the try block and its handler.  verdict "ok": the block ran to its
\* end; "error": the handler printed the error marker.
ChatTest1(r) ==
  IF r.kind = "raise" THEN [verdict |-> "error", listed |-> <<>>]
  ELSE IF r.kind = "nochoices" THEN [verdict |-> "error", listed |-> <<>>] \* IndexError
  ELSE IF r.content.isNone THEN [verdict |-> "error", listed |-> <<>>]   \* len(None)
  ELSE [verdict |-> "ok", listed |-> <<>>]

\* TEST 2: the try block and its handler; listed: the function names printed
ChatTest2(r) ==
  IF r.kind = "raise" THEN [verdict |-> "error", listed |-> <<>>]
  ELSE IF r.kind = "nochoices" THEN [verdict |-> "error", listed |-> <<>>]
  ELSE IF ToolCallsTruthy(r.tool_calls)
       THEN [verdict |-> "ok", listed |-> r.tool_calls.calls]
       ELSE [verdict |-> "ok", listed |-> <<>>]

(***************************************************************************)
(* State                                                                   *)
(***************************************************************************)
VARIABLES
  script,     \* which script this process runs: "image" or "litellm"
  pc,         \* position of the process
  args,       \* what parse_args returned
  i,          \* run_test_suite: index of the next case (enumerate from 1)
  passed,     \* run_test_suite: passed
  failed,     \* run_test_suite: failed
  cur,        \* the active call of test_image_generation
  inv,        \* what requests.post of the last call ended in
  io,         \* what the file system did in the last call
  out,        \* lines printed by the last call of test_image_generation
  outcomes,   \* return values of the calls of test_image_generation, in order
  started,    \* indexes of the calls started, in order (0: the single case)
  posts,      \* number of requests.post calls made
  inflight,   \* number of requests sent and not yet answered
  files,      \* content of every output file
  dirs,       \* directories that exist
  success,    \* main: <<>> until `success = ...` is assigned, then <<value>>
  chat,       \* litellm script: per finished test, the response and what was printed
  exit_code   \* <<>> while running, <<status>> once the process has exited

imageVars == <<args, i, passed, failed, cur, inv, io, out, outcomes, started,
               posts, inflight, files, dirs, success>>

\* an earlier run left the default output file and the first suite file
InitFiles == [p \in Paths |->
                IF p = SinglePath(DefaultOutput) \/ p = CasePath(1)
                THEN Old ELSE Absent]

ImageInit ==
  /\ args = NoArgs
  /\ i = 0 /\ passed = 0 /\ failed = 0
  /\ cur = NoCall /\ inv = NoInvocation /\ io = "ok" /\ out = <<>>
  /\ outcomes = <<>> /\ started = <<>>
  /\ posts = 0 /\ inflight = 0
  /\ files = InitFiles
  /\ dirs = {"/tmp"}
  /\ success = <<>>

(***************************************************************************)
(* main                                                                    *)
(***************************************************************************)
Exit(code) == /\ exit_code' = <<code>>
              /\ pc' = "exited"

\* args = parse_args(): argparse returns the options, or ends the process
ParseArgsOk ==
  /\ script = "image" /\ pc = "start"
  /\ \E a \in ArgsSpace : args' = a
  /\ pc' = "parsed"
  /\ UNCHANGED <<script, i, passed, failed, cur, inv, io, out, outcomes,
                 started, posts, inflight, files, dirs, success, chat, exit_code>>

ParseArgsRejected ==
  /\ script = "image" /\ pc = "start"
  /\ \E code \in {UsageExit, HelpExit} : Exit(code)
  /\ UNCHANGED <<script, imageVars, chat>>

\* test_image_generation past the key check: headers and payload are built
\* and requests.post is called
SendRequest(idx, format, path) ==
  /\ started' = Append(started, idx)
  /\ cur' = [idx |-> idx, format |-> format, path |-> path]
  /\ posts' = posts + 1
  /\ inflight' = inflight + 1
  /\ pc' = "awaiting"
  /\ inv' = NoInvocation /\ io' = "ok" /\ out' = <<>>

\* the caller's use of the return value
Return(ret) ==
  IF args.run_suite
  THEN /\ passed' = Tally(passed, failed, ret).passed
       /\ failed' = Tally(passed, failed, ret).failed
       /\ i' = i + 1
       /\ pc' = "loop"
       /\ UNCHANGED <<success, exit_code>>
  ELSE /\ success' = <<ret>>
       /\ Exit(ExitCode(ret))
       /\ UNCHANGED <<i, passed, failed>>

\* `if not api_key: print(...); return False`
ReturnKeyMissing(idx) ==
  /\ started' = Append(started, idx)
  /\ outcomes' = Append(outcomes, FALSE)
  /\ out' = <<Line("API_KEY not set", 0)>>
  /\ inv' = NoInvocation /\ io' = "ok"
  /\ Return(FALSE)
  /\ UNCHANGED <<cur, posts, inflight, files, dirs>>

\* main, single case: test_image_generation(args...) up to requests.post
MainSingle ==
  /\ script = "image" /\ pc = "parsed" /\ ~args.run_suite
  /\ IF KeyMissing(args.api_key)
     THEN ReturnKeyMissing(0)
     ELSE /\ SendRequest(0, args.format, SinglePath(args.output))
          /\ UNCHANGED <<i, passed, failed, outcomes, files, dirs, success,
                         exit_code>>
  /\ UNCHANGED <<script, args, chat>>

\* main, --run-suite: run_test_suite up to the for loop
MainSuite ==
  /\ script = "image" /\ pc = "parsed" /\ args.run_suite
  /\ passed' = 0 /\ failed' = 0 /\ i' = 1
  /\ pc' = "loop"
  /\ UNCHANGED <<script, args, cur, inv, io, out, outcomes, started, posts,
                 inflight, files, dirs, success, chat, exit_code>>

\* one iteration of the for loop, up to requests.post
SuiteCase ==
  /\ script = "image" /\ pc = "loop" /\ i <= Len(test_cases)
  /\ IF KeyMissing(args.api_key)
     THEN ReturnKeyMissing(i)
     ELSE /\ SendRequest(i, test_cases[i].format, CasePath(i))
          /\ UNCHANGED <<i, passed, failed, outcomes, files, dirs, success,
                         exit_code>>
  /\ UNCHANGED <<script, args, chat>>

\* an exception leaves main: the interpreter prints the traceback and the
\* process ends with status 1, without sys.exit
Crash ==
  /\ exit_code' = <<1>>
  /\ pc' = "crashed"
  /\ UNCHANGED <<i, passed, failed, success, outcomes>>

\* requests.post ends (response or exception); the rest of the call runs and
\* the caller takes the return value
Finish(v, o) ==
  LET r == TestBody(v, cur.format, cur.path, files, dirs, o) IN
  /\ inv' = v /\ io' = o
  /\ inflight' = inflight - 1
  /\ out' = r.out
  /\ files' = r.files /\ dirs' = r.dirs
  /\ IF r.uncaught
     THEN Crash
     ELSE /\ outcomes' = Append(outcomes, r.ret)
          /\ Return(r.ret)
  /\ UNCHANGED <<script, args, cur, started, posts, chat>>

PostRaises ==
  /\ script = "image" /\ pc = "awaiting"
  /\ \E e \in PostExceptions : Finish(Raised(e), "ok")

PostReturnsError ==
  /\ script = "image" /\ pc = "awaiting"
  /\ \E v \in Invocations :
       /\ v.kind = "response"
       /\ ~(v.status_code = 200 /\ v.text.json)
       /\ Finish(v, "ok")

PostReturnsJson ==
  /\ script = "image" /\ pc = "awaiting"
  /\ \E v \in Invocations, o \in IOOutcomes :
       /\ v.kind = "response" /\ v.status_code = 200 /\ v.text.json
       /\ (o = "mkdir_fails" => cur.path.dir \notin dirs)
       /\ Finish(v, o)

\* after the loop: the summary, `return failed == 0`, sys.exit
SuiteReport ==
  /\ script = "image" /\ pc = "loop" /\ i > Len(test_cases)
  /\ success' = <<SuiteResult(failed)>>
  /\ Exit(ExitCode(SuiteResult(failed)))
  /\ UNCHANGED <<script, args, i, passed, failed, cur, inv, io, out, outcomes,
                 started, posts, inflight, files, dirs, chat>>

ImageNext ==
  \/ ParseArgsOk \/ ParseArgsRejected
  \/ MainSingle \/ MainSuite \/ SuiteCase
  \/ PostRaises \/ PostReturnsError \/ PostReturnsJson
  \/ SuiteReport

(***************************************************************************)
(* test-litellm-integration.py : the script                                *)
(***************************************************************************)
\* `import litellm` fails: the configuration is printed, exit(0)
ChatImportError ==
  /\ script = "litellm" /\ pc = "start"
  /\ Exit(0)
  /\ UNCHANGED <<script, imageVars, chat>>

ChatImport ==
  /\ script = "litellm" /\ pc = "start"
  /\ pc' = "test1"
  /\ UNCHANGED <<script, imageVars, chat, exit_code>>

ChatRunTest1 ==
  /\ script = "litellm" /\ pc = "test1"
  /\ \E r \in Completions :
       chat' = Append(chat, [test |-> 1, resp |-> r,
                             verdict |-> ChatTest1(r).verdict,
                             listed |-> ChatTest1(r).listed])
  /\ pc' = "test2"
  /\ UNCHANGED <<script, imageVars, exit_code>>

ChatRunTest2 ==
  /\ script = "litellm" /\ pc = "test2"
  /\ \E r \in Completions :
       chat' = Append(chat, [test |-> 2, resp |-> r,
                             verdict |-> ChatTest2(r).verdict,
                             listed |-> ChatTest2(r).listed])
  /\ pc' = "complete"
  /\ UNCHANGED <<script, imageVars, exit_code>>

\* "Test complete!" and the end of the script
ChatEnd ==
  /\ script = "litellm" /\ pc = "complete"
  /\ Exit(0)
  /\ UNCHANGED <<script, imageVars, chat>>

ChatNext == ChatImportError \/ ChatImport \/ ChatRunTest1 \/ ChatRunTest2 \/ ChatEnd

vars == <<script, pc, imageVars, chat, exit_code>>

Init ==
  /\ script \in {"image", "litellm"}
  /\ pc = "start"
  /\ exit_code = <<>>
  /\ chat = <<>>
  /\ ImageInit

Next == ImageNext \/ ChatNext

Spec == Init /\ [][Next]_vars

\* the process is single-threaded and keeps running; requests.post is given
\* timeout=60, so every request ends in a response or an exception
FairSpec == Spec /\ WF_vars(Next)

(***************************************************************************)
(* Properties                                                              *)
(***************************************************************************)
Last(q) == q[Len(q)]
RECURSIVE CountOf(_, _)
CountOf(q, x) == IF q = <<>> THEN 0
                 ELSE (IF Last(q) = x THEN 1 ELSE 0) + CountOf(SubSeq(q, 1, Len(q) - 1), x)
NumCases == Len(test_cases)

ImageRun == script = "image" /\ args.parsed
SuiteRun == ImageRun /\ args.run_suite
KeySupplied == args.api_key \notin {NoKey, ""}
SuiteReported == SuiteRun /\ pc = "exited"
\* the last call of test_image_generation sent its request and has returned
CallReturned == script = "image" /\ inv # NoInvocation /\ outcomes # <<>>
Got200Json == inv.kind = "response" /\ inv.status_code = 200 /\ inv.text.json

\* C1 (as claimed): a finished suite run has made exactly one POST per case
\* and produced one outcome per case, whatever the API key, a missing one
\* included.
C1_PostPerCaseAnyKey ==
  SuiteReported => posts = NumCases /\ Len(outcomes) = NumCases

\* C1 (amended): a suite run produces one outcome per case; it makes one POST
\* per case started when an API key is supplied (none is repeated), and no
\* POST at all when the key is missing or empty.
C1_PostPerCase ==
  SuiteRun =>
    /\ posts = (IF KeySupplied THEN Len(started) ELSE 0)
    /\ Len(outcomes) = Len(started) - inflight
    /\ (pc = "exited" => Len(outcomes) = NumCases /\ Len(started) = NumCases)

C1_Witness ==
  /\ SuiteReported /\ KeySupplied
  /\ posts = NumCases /\ Len(outcomes) = NumCases
  /\ TRUE \in {outcomes[k] : k \in 1..Len(outcomes)}
  /\ FALSE \in {outcomes[k] : k \in 1..Len(outcomes)}

\* C2: in a suite run passed counts the calls that returned True and failed
\* those that returned False; after the loop they add up to the number of
\* cases and the suite's result is True iff every call returned True.
C2_Counters ==
  SuiteRun /\ pc \in {"loop", "awaiting", "exited"} =>
    /\ passed = CountOf(outcomes, TRUE)
    /\ failed = CountOf(outcomes, FALSE)
    /\ (pc = "exited" =>
          /\ passed + failed = NumCases
          /\ success = << \A k \in 1..Len(outcomes) : outcomes[k] >>)

C2_Witness ==
  /\ SuiteReported
  /\ outcomes = <<TRUE, FALSE, TRUE, TRUE, TRUE>>
  /\ passed = 4 /\ failed = 1 /\ success = <<FALSE>>

\* C3 (as claimed): a call that sent its request returns True iff the response
\* was a 200 whose JSON body holds a non-empty list under "data".
C3_PassIffImages ==
  CallReturned =>
    (Last(outcomes) <=> (Got200Json /\ inv.text.value.obj /\ inv.text.value.data = "list"))

\* C4 (as claimed): a 200 response with a valid body passes even when the
\* directory cannot be created or the file cannot be written.
C4_PersistBestEffort ==
  CallReturned /\ Got200Json /\ inv.text.value.obj /\ inv.text.value.data = "list"
     /\ inv.text.value.first # "urlnull" /\ io # "ok"
  => Last(outcomes) = TRUE

\* C5: a call whose request ended in a connection error, a timeout, a status
\* other than 200 or a 200 body that is no JSON returns False and prints the
\* line naming that failure; for a status other than 200 the line carries the
\* status code.
C5_FailureDiagnosed ==
  CallReturned /\ ~Got200Json =>
    /\ Last(outcomes) = FALSE
    /\ Len(out) = 1
    /\ out[1] = (CASE inv.kind = "raise" /\ inv.exc = "ConnectionError"
                        -> [m |-> "Connection error", n |-> 0]
                   [] inv.kind = "raise" /\ inv.exc = "Timeout"
                        -> [m |-> "Timeout", n |-> 0]
                   [] inv.kind = "raise" /\ inv.exc \notin {"ConnectionError", "Timeout"}
                        -> [m |-> "Error", n |-> 0]
                   [] inv.kind = "response" /\ inv.status_code # 200
                        -> [m |-> "HTTP", n |-> inv.status_code]
                   [] inv.kind = "response" /\ inv.status_code = 200
                        -> [m |-> "Invalid JSON response", n |-> 0])

C5_Witness ==
  /\ CallReturned /\ inv.kind = "response" /\ inv.status_code = 500
  /\ out = <<[m |-> "HTTP", n |-> 500]>>
  /\ Last(outcomes) = FALSE

\* the run succeeded overall: the single case passed, or every suite case did
OverallSuccess ==
  IF args.run_suite
  THEN Len(outcomes) = NumCases /\ \A k \in 1..NumCases : outcomes[k]
  ELSE outcomes = <<TRUE>>

\* C6 (as claimed): every run of the image script ends through sys.exit with
\* status 0 or 1, and the status is 0 iff the run succeeded overall.
C6_ExitZeroIffSuccess ==
  script = "image" =>
    /\ (pc \in {"exited", "crashed"} =>
          /\ pc = "exited"
          /\ exit_code \in {<<0>>, <<1>>}
          /\ (exit_code = <<0>> <=> OverallSuccess))
    /\ (pc \notin {"exited", "crashed"} => exit_code = <<>> /\ ENABLED Next)

\* C6 (amended): every run in which parse_args returns ends through sys.exit
\* with status 0 or 1, and the status is 0 iff the run succeeded overall; when
\* argparse ends the process itself (a rejected command line, --help) the
\* status is 2 or 0 and no case has run.
C6_ExitCode ==
  script = "image" =>
    /\ (pc \in {"exited", "crashed"} /\ args.parsed =>
          /\ pc = "exited"
          /\ exit_code \in {<<0>>, <<1>>}
          /\ (exit_code = <<0>> <=> OverallSuccess)
          /\ success = <<OverallSuccess>>)
    /\ (pc \in {"exited", "crashed"} /\ ~args.parsed =>
          /\ exit_code \in {<<UsageExit>>, <<HelpExit>>}
          /\ started = <<>> /\ success = <<>>)
    /\ (pc \notin {"exited", "crashed"} => exit_code = <<>> /\ ENABLED Next)

C6_Witness ==
  /\ SuiteReported /\ exit_code = <<0>>
  /\ outcomes = <<TRUE, TRUE, TRUE, TRUE, TRUE>>

\* C7 (as claimed): in the chat probe a response with content = None and an
\* empty tool_calls list is a failed test, and a response with content = None
\* and a non-empty tool_calls list is a passed test whose output lists the
\* function name of every call, in order.
C7_ChatVerdict ==
  \A k \in 1..Len(chat) :
    LET t == chat[k] IN
    t.resp.kind = "message" /\ t.resp.content.isNone =>
      /\ (t.resp.tool_calls.kind = "list" /\ t.resp.tool_calls.calls = <<>>
            => t.verdict = "error")
      /\ (t.resp.tool_calls.kind = "list" /\ t.resp.tool_calls.calls # <<>>
            => t.verdict = "ok" /\ t.listed = t.resp.tool_calls.calls)

\* C8: when the API key is missing (None or empty) the image script sends no
\* request at any point of the run, in single-case mode and in suite mode, and
\* the process exits with status 1.
C8_NoRequestWithoutKey ==
  ImageRun /\ ~KeySupplied =>
    /\ posts = 0 /\ inflight = 0 /\ pc # "awaiting" /\ inv = NoInvocation
    /\ \A k \in 1..Len(outcomes) : outcomes[k] = FALSE
    /\ (pc \in {"exited", "crashed"} => pc = "exited" /\ exit_code = <<1>>)

C8_Witness ==
  /\ SuiteReported /\ args.api_key = NoKey
  /\ posts = 0 /\ failed = NumCases /\ exit_code = <<1>>

\* the order of a suite run, in every state
C9_Order ==
  SuiteRun /\ pc # "parsed" =>
    /\ \A k \in 1..Len(started) : started[k] = k
    /\ Len(started) <= NumCases
    /\ inflight \in {0, 1}
    /\ (inflight = 1 <=> pc = "awaiting")
    /\ Len(outcomes) = Len(started) - inflight
    /\ (pc = "loop" => i = Len(outcomes) + 1)
    /\ pc # "crashed"
    /\ (pc = "exited" => Len(outcomes) = NumCases)

\* C9: the suite starts its cases in list order, one at a time, each after the
\* one before it has returned, with none skipped or repeated; whatever a case
\* fails with becomes a False outcome, and the run goes on to the report with
\* one outcome per case.
C9_Sequential ==
  /\ []C9_Order
  /\ ((SuiteRun /\ pc = "loop") ~> (pc = "exited" /\ Len(outcomes) = NumCases))

C9_Witness ==
  /\ SuiteReported
  /\ started = <<1, 2, 3, 4, 5>>
  /\ outcomes = <<FALSE, TRUE, FALSE, TRUE, TRUE>>
  /\ inv.kind = "response" /\ inv.status_code = 200

\* the file content the claim speaks of: the decoded body, serialised
Written(v) == [kind |-> "json_indent2", value |-> v.text.value]
\* the path of a call is the one derived from its own index
OwnPath(c) ==
  IF args.run_suite
  THEN c.idx \in 1..NumCases /\ c.path = [dir |-> "/tmp", file |-> "image_test", idx |-> c.idx]
  ELSE c.idx = 0 /\ c.path.idx = 0 /\ c.path.file = args.output

\* C10 (as claimed): after a call whose POST returned 200 with a JSON body the
\* output file holds exactly the decoded body; after a call that ended any
\* other way the file is as it was; a file that differs from what it was is
\* the file of a started case.
C10_FileHoldsBody ==
  script = "image" /\ inv # NoInvocation =>
    /\ (Got200Json => files[cur.path] = Written(inv))
    /\ (~Got200Json => files[cur.path] = InitFiles[cur.path])
    /\ \A p \in Paths : files[p] # InitFiles[p] =>
          \E k \in 1..Len(started) : p.idx = started[k]

StepWrites(p) ==
  /\ pc = "awaiting" /\ p = cur.path /\ OwnPath(cur)
  /\ Got200Json'
  /\ files'[p] \in {Written(inv'), Truncated}

\* C10 (amended): a step changes an output file, or creates a directory, only
\* when it ends a call whose POST returned 200 with a JSON body, and then only
\* the file and the parent directory of that call's own path; when mkdir, open
\* and the write succeed the file then holds exactly the decoded body, and a
\* write that fails leaves the file truncated.
C10_FileFrame ==
  [][ /\ \A p \in Paths : files'[p] # files[p] => StepWrites(p)
      /\ (dirs' # dirs =>
            pc = "awaiting" /\ Got200Json' /\ dirs' = dirs \cup {cur.path.dir})
      /\ (pc = "awaiting" /\ Got200Json' /\ io' = "ok"
            => files'[cur.path] = Written(inv'))
      /\ (pc = "awaiting" /\ Got200Json' /\ io' = "write_fails"
            => files'[cur.path] = Truncated)
    ]_vars

C10_Witness ==
  /\ SuiteRun /\ pc = "loop" /\ cur.idx = 3
  /\ Got200Json /\ io = "ok"
  /\ files[cur.path] = Written(inv)
  /\ cur.path.idx = 3
  /\ \A p \in Paths : p.idx = 2 => files[p] = Absent
  /\ \A p \in Paths : p.idx = 1 /\ p.file = "image_test" => files[p].kind = "json_indent2"

====
